---- MODULE Spec2Model ----
(***************************************************************************)
(* ssh-scanner (main.go): range parsing (parseInput), address enumeration *)
(* (generateIPs, inc) and the bounded-concurrency scan (scan,             *)
(* tryConnectSSH).                                                         *)
(*                                                                         *)
(* Addresses of the enumerator and of the scan are byte sequences as in   *)
(* net.IP, scaled down: IPLen bytes of ByteBits bits each instead of 4    *)
(* bytes of 8 bits, so that a whole address space (prefix length 0) can   *)
(* be walked.  The tally counters are atomic.Int32 in the source and      *)
(* signed CounterBits-bit integers here.                                   *)
(***************************************************************************)
EXTENDS Integers, Sequences, FiniteSets, Bags, TLC

\* ------------------------------------------------------------------ bounds
\* bits of one address byte (8 in net.IP)
ByteBits == 2
\* addresses are 1..IPLen bytes long (4 or 16 in net.IP)
IPLen == 2
\* cfg.Workers ranges over 1..MaxWorkers
MaxWorkers == 2
\* a scanned range has at most 2^MaxHostBits addresses, or is a whole space
MaxHostBits == 2
\* width of the tally counters (32 in atomic.Int32)
CounterBits == 3
\* goroutines that have given their token back and not yet called wg.Done:
\* the dispatch loop takes the next address while fewer than
\* cfg.Workers + MaxLag goroutines are alive
MaxLag == 1

ByteMod == 2 ^ ByteBits
AddrBits == IPLen * ByteBits

VARIABLES
    input,          \* the target given on the command line, a sequence of characters
    ppc,            \* main: "parse" before the call of parseInput, "parsed" after,
                    \* "exited" after os.Exit(1)
    exitCode,       \* the exit status of the process, -1 while it runs
    parsed,         \* what parseInput returned: [ip, ipNet, err]
    cfg,            \* Config: Workers, OutputFile
    ip, ipNet,      \* the parsed range handed to generateIPs
    gpc,            \* generateIPs goroutine: "start", "loop", "done"
    currentIP,      \* its loop variable
    out,            \* the channel it returns: buffered strings
    outClosed,      \* close(out) has run
    emitted,        \* history: the strings sent on out, in order (the first HistCap)
    spc,            \* scan: where its own goroutine stands
    target,         \* scan: the loop variable ip of "for ip := range ips"
    sem,            \* number of tokens in the channel sem
    wg,             \* the WaitGroup counter
    okNum, failNum, processedNum,   \* the atomic.Int32 tally
    printMutex, outputMutex,        \* holder of each mutex, "" when unlocked
    f, fileData,    \* the output file: "nil", "open" or "closed", and its lines
    done,           \* the channel done is closed
    probes,         \* the probe goroutines alive, a bag of [ip, pc, late]
    opc,            \* the progress goroutine
    found,          \* history: the addresses whose probe returned nil (kept when
                    \* there is an output file to compare with)
    notified,       \* history: the addresses of the "[+]" lines on standard
                    \* output, in order (kept when there is an output file)
    summary         \* history: the tally the final summary printed

inVars == <<input, ppc, exitCode, parsed, cfg, ip, ipNet>>
genVars == <<gpc, currentIP, outClosed, emitted>>
tallyVars == <<okNum, failNum, processedNum>>
fileVars == <<f, fileData>>
scanVars == <<spc, target, sem, wg, tallyVars, printMutex, outputMutex, fileVars,
              done, probes, opc, found, notified, summary>>
vars == <<inVars, genVars, out, scanVars>>

\* ------------------------------------------------------------ net.IP helpers
RECURSIVE BitAnd(_, _)
BitAnd(a, b) ==
    IF a = 0 \/ b = 0 THEN 0
    ELSE (a % 2) * (b % 2) + 2 * BitAnd(a \div 2, b \div 2)

Min(a, b) == IF a < b THEN a ELSE b
Max(a, b) == IF a > b THEN a ELSE b

\* net.CIDRMask(ones, bits) over bytes of bb bits: the first ones bits set.
CIDRMaskOf(ones, len, bb) ==
    [i \in 1..len |->
        LET n == Max(0, Min(bb, ones - (i - 1) * bb))
        IN  2 ^ bb - 2 ^ (bb - n)]

CIDRMask(ones, len) == CIDRMaskOf(ones, len, ByteBits)

\* IP.Mask(mask): bytewise AND.
MaskIP(addr, mask) == [i \in 1..Len(addr) |-> BitAnd(addr[i], mask[i])]

\* IPNet.Contains(ip): same length and equal under the mask.
Contains(net, addr) ==
    /\ Len(addr) = Len(net.IP)
    /\ \A i \in 1..Len(addr) :
          BitAnd(net.IP[i], net.Mask[i]) = BitAnd(addr[i], net.Mask[i])

\* IP.String(): the bytes in decimal, joined by dots.
RECURSIVE IPString(_)
IPString(addr) ==
    IF Len(addr) = 0 THEN ""
    ELSE IF Len(addr) = 1 THEN ToString(addr[1])
    ELSE ToString(addr[1]) \o "." \o IPString(Tail(addr))

\* The value of an address as a big-endian integer.
RECURSIVE IPValue(_)
IPValue(addr) ==
    IF Len(addr) = 0 THEN 0
    ELSE addr[Len(addr)] + ByteMod * IPValue(SubSeq(addr, 1, Len(addr) - 1))

\* The address of length len whose big-endian value is v.
IPOfValue(v, len) == [i \in 1..len |-> (v \div (ByteMod ^ (len - i))) % ByteMod]

\* IPMask.Size(): the number of leading one bits, and the width in bits.
RECURSIVE PopCount(_)
PopCount(b) == IF b = 0 THEN 0 ELSE (b % 2) + PopCount(b \div 2)

RECURSIVE MaskOnesFrom(_, _)
MaskOnesFrom(mask, i) ==
    IF i > Len(mask) THEN 0 ELSE PopCount(mask[i]) + MaskOnesFrom(mask, i + 1)

MaskOnes(mask) == MaskOnesFrom(mask, 1)
MaskBits(mask) == Len(mask) * ByteBits

\* main: totalIPs := uint64(1) << (bits - ones)
TotalIPs(net) == 2 ^ (MaskBits(net.Mask) - MaskOnes(net.Mask))

\* ------------------------------------------------------------ parseInput
\* Text is a sequence of one-character strings.  Parsed addresses are the
\* real thing: bytes of OctetBits bits, 4 of them for an IPv4 address.
OctetBits == 8
IPv4len == 4
IPv6len == 16
NilIP == <<>>
NilNet == [IP |-> <<>>, Mask |-> <<>>]
NoError == [Type |-> "", Text |-> <<>>]
NoResult == [ip |-> NilIP, ipNet |-> NilNet, err |-> NoError]

DigitChars == <<"0", "1", "2", "3", "4", "5", "6", "7", "8", "9">>
IsDigit(c) == \E d \in 1..10 : DigitChars[d] = c
DigitVal(c) == (CHOOSE d \in 1..10 : DigitChars[d] = c) - 1
AllDigits(s) == Len(s) > 0 /\ \A i \in 1..Len(s) : IsDigit(s[i])

RECURSIVE DecimalValue(_)
DecimalValue(s) ==
    IF Len(s) = 0 THEN 0
    ELSE DigitVal(s[Len(s)]) + 10 * DecimalValue(SubSeq(s, 1, Len(s) - 1))

\* strconv.Itoa, the %d of fmt
RECURSIVE Decimal(_)
Decimal(n) ==
    IF n < 10 THEN <<DigitChars[n + 1]>>
    ELSE Decimal(n \div 10) \o <<DigitChars[(n % 10) + 1]>>

RECURSIVE StripZeros(_)
StripZeros(s) == IF Len(s) > 0 /\ s[1] = "0" THEN StripZeros(Tail(s)) ELSE s

\* a <= b for two digit sequences of the same length
RECURSIVE DigitsLeq(_, _)
DigitsLeq(a, b) ==
    IF Len(a) = 0 THEN TRUE
    ELSE IF DigitVal(a[1]) # DigitVal(b[1]) THEN DigitVal(a[1]) < DigitVal(b[1])
    ELSE DigitsLeq(Tail(a), Tail(b))

\* 2^63 - 1, the largest int
MaxInt64 ==
    <<"9", "2", "2", "3", "3", "7", "2", "0", "3", "6", "8", "5", "4", "7", "7",
      "5", "8", "0", "7">>
MinInt64 == [MaxInt64 EXCEPT ![19] = "8"]

\* strconv.Atoi(s) succeeds: an optional sign, then digits, within int64
AtoiOk(s) ==
    LET signed == Len(s) > 0 /\ s[1] \in {"+", "-"}
        body == IF signed THEN Tail(s) ELSE s
        limit == IF signed /\ s[1] = "-" THEN MinInt64 ELSE MaxInt64
        digits == StripZeros(body)
    IN  /\ AllDigits(body)
        /\ \/ Len(digits) < Len(limit)
           \/ Len(digits) = Len(limit) /\ DigitsLeq(digits, limit)

\* dtoi(s) of package net: all of s is digits and their value is below 0xFFFFFF
DtoiOk(s) ==
    /\ AllDigits(s)
    /\ Len(StripZeros(s)) <= 8
    /\ DecimalValue(StripZeros(s)) < 16777215

\* the first place of character c in s, 0 when there is none
IndexOf(s, c) ==
    IF \E i \in 1..Len(s) : s[i] = c
    THEN CHOOSE i \in 1..Len(s) : s[i] = c /\ \A j \in 1..(i - 1) : s[j] # c
    ELSE 0

RECURSIVE SplitDots(_)
SplitDots(s) ==
    LET i == IndexOf(s, ".")
    IN  IF i = 0 THEN <<s>>
        ELSE <<SubSeq(s, 1, i - 1)>> \o SplitDots(SubSeq(s, i + 1, Len(s)))

\* one field of a dotted IPv4 address: 1 to 3 digits, no leading zero, <= 255
FieldOk(fld) ==
    /\ AllDigits(fld)
    /\ Len(fld) <= 3
    /\ (Len(fld) > 1 => fld[1] # "0")
    /\ DecimalValue(fld) < 2 ^ OctetBits

\* the 4 bytes of a dotted IPv4 address, nil when s is none
ParseIPv4(s) ==
    LET flds == SplitDots(s)
    IN  IF Len(flds) = IPv4len /\ \A i \in 1..IPv4len : FieldOk(flds[i])
        THEN [i \in 1..IPv4len |-> DecimalValue(flds[i])]
        ELSE NilIP

\* the 16-byte form net keeps an IPv4 address in
V4InV6(a) == <<0, 0, 0, 0, 0, 0, 0, 0, 0, 0, 255, 255>> \o a

\* IP.To4()
To4(a) ==
    IF Len(a) = IPv4len THEN a
    ELSE IF Len(a) = IPv6len /\ SubSeq(a, 1, 12) = V4InV6(<<>>) THEN SubSeq(a, 13, 16)
    ELSE NilIP

\* An IPv6 address in text: fields of 1 to 4 hexadecimal digits between
\* colons, at most one "::" that stands for a run of zero fields, and at the
\* end possibly a dotted IPv4 address in place of the last two fields.
HexChars ==
    <<"0", "1", "2", "3", "4", "5", "6", "7", "8", "9", "a", "b", "c", "d", "e", "f">>
UpperHex ==
    <<"0", "1", "2", "3", "4", "5", "6", "7", "8", "9", "A", "B", "C", "D", "E", "F">>
IsHex(c) == \E d \in 1..16 : HexChars[d] = c \/ UpperHex[d] = c
HexVal(c) == (CHOOSE d \in 1..16 : HexChars[d] = c \/ UpperHex[d] = c) - 1

\* the number of hexadecimal digits s starts with
RECURSIVE HexRun(_)
HexRun(s) == IF Len(s) > 0 /\ IsHex(s[1]) THEN 1 + HexRun(Tail(s)) ELSE 0

RECURSIVE HexValue(_)
HexValue(s) ==
    IF Len(s) = 0 THEN 0
    ELSE HexVal(s[Len(s)]) + 16 * HexValue(SubSeq(s, 1, Len(s) - 1))

\* the loop of the IPv6 parser: bytes are the bytes read so far, ellipsis the
\* place of the "::" among them, -1 when none was seen
RECURSIVE V6Fields(_, _, _)
V6Fields(s, bytes, ellipsis) ==
    LET bad == [ok |-> FALSE, bytes |-> <<>>, ellipsis |-> -1]
        off == HexRun(s)
        rest == SubSeq(s, off + 1, Len(s))
        v == HexValue(SubSeq(s, 1, off))
        more == bytes \o <<v \div 2 ^ OctetBits, v % 2 ^ OctetBits>>
    IN  IF Len(bytes) >= IPv6len THEN bad
        ELSE IF off = 0 \/ off > 4 THEN bad
        ELSE IF Len(rest) > 0 /\ rest[1] = "."
             THEN IF \/ ellipsis < 0 /\ Len(bytes) # IPv6len - IPv4len
                     \/ Len(bytes) + IPv4len > IPv6len
                     \/ ParseIPv4(s) = NilIP
                  THEN bad
                  ELSE [ok |-> TRUE, bytes |-> bytes \o ParseIPv4(s),
                        ellipsis |-> ellipsis]
        ELSE IF Len(rest) = 0
             THEN [ok |-> TRUE, bytes |-> more, ellipsis |-> ellipsis]
        ELSE IF rest[1] # ":" \/ Len(rest) = 1 THEN bad
        ELSE IF rest[2] = ":"
             THEN IF ellipsis >= 0 THEN bad
                  ELSE IF Len(rest) = 2
                       THEN [ok |-> TRUE, bytes |-> more, ellipsis |-> Len(more)]
                       ELSE V6Fields(SubSeq(rest, 3, Len(rest)), more, Len(more))
        ELSE V6Fields(Tail(rest), more, ellipsis)

\* the 16 bytes of an IPv6 address, nil when s is none
ParseIPv6(s) ==
    LET lead == Len(s) >= 2 /\ s[1] = ":" /\ s[2] = ":"
        body == IF lead THEN SubSeq(s, 3, Len(s)) ELSE s
        r == IF lead /\ Len(body) = 0
             THEN [ok |-> TRUE, bytes |-> <<>>, ellipsis |-> 0]
             ELSE V6Fields(body, <<>>, IF lead THEN 0 ELSE -1)
        n == Len(r.bytes)
    IN  IF ~r.ok THEN NilIP
        ELSE IF n < IPv6len
             THEN IF r.ellipsis < 0 THEN NilIP
                  ELSE SubSeq(r.bytes, 1, r.ellipsis)
                          \o [i \in 1..(IPv6len - n) |-> 0]
                          \o SubSeq(r.bytes, r.ellipsis + 1, n)
        ELSE IF r.ellipsis >= 0 THEN NilIP
        ELSE r.bytes

\* the address in s, 4 or 16 bytes: the first "." or ":" decides the family
ParseAddr(s) ==
    LET seps == { i \in 1..Len(s) : s[i] \in {".", ":"} }
    IN  IF seps = {} THEN NilIP
        ELSE IF s[CHOOSE i \in seps : \A j \in seps : i <= j] = "."
             THEN ParseIPv4(s)
             ELSE ParseIPv6(s)

\* net.ParseIP(s): always the 16-byte form
ParseIP(s) ==
    LET a == ParseAddr(s)
    IN  IF Len(a) = IPv4len THEN V4InV6(a) ELSE a

\* IP.String() of package net, as text: dotted decimal for an address that
\* has a 4-byte form, else the eight fields in hexadecimal with the longest
\* run of two or more zero fields, the leftmost such, written "::".
RECURSIVE HexText(_)
HexText(n) ==
    IF n < 16 THEN <<HexChars[n + 1]>>
    ELSE HexText(n \div 16) \o <<HexChars[(n % 16) + 1]>>

Fields(a) ==
    [k \in 1..(IPv6len \div 2) |-> a[2 * k - 1] * 2 ^ OctetBits + a[2 * k]]

RECURSIVE ZeroRun(_, _)
ZeroRun(flds, i) ==
    IF i <= Len(flds) /\ flds[i] = 0 THEN 1 + ZeroRun(flds, i + 1) ELSE 0

\* where the "::" goes: the first field of the run, 0 when there is no run
ZeroStart(flds) ==
    LET best == { i \in 1..Len(flds) :
                    /\ ZeroRun(flds, i) >= 2
                    /\ \A j \in 1..Len(flds) :
                          \/ ZeroRun(flds, j) < ZeroRun(flds, i)
                          \/ ZeroRun(flds, j) = ZeroRun(flds, i) /\ i <= j }
    IN  IF best = {} THEN 0 ELSE CHOOSE i \in best : TRUE

RECURSIVE String6From(_, _, _)
String6From(flds, i, zs) ==
    IF i > Len(flds) THEN <<>>
    ELSE IF i = zs
         THEN LET ze == zs + ZeroRun(flds, zs)
              IN  <<":", ":">> \o
                  (IF ze > Len(flds) THEN <<>>
                   ELSE HexText(flds[ze]) \o String6From(flds, ze + 1, zs))
    ELSE (IF i > 1 THEN <<":">> ELSE <<>>) \o HexText(flds[i])
            \o String6From(flds, i + 1, zs)

RECURSIVE DottedFrom(_, _)
DottedFrom(a, i) ==
    IF i = Len(a) THEN Decimal(a[i])
    ELSE Decimal(a[i]) \o <<".">> \o DottedFrom(a, i + 1)

IPText(a) ==
    IF To4(a) # NilIP THEN DottedFrom(To4(a), 1)
    ELSE String6From(Fields(a), 1, ZeroStart(Fields(a)))

\* IPMask.String(): the bytes in hexadecimal, two digits each
RECURSIVE MaskHex(_)
MaskHex(m) ==
    IF Len(m) = 0 THEN <<>>
    ELSE <<HexChars[(m[1] \div 16) + 1], HexChars[(m[1] % 16) + 1]>> \o MaskHex(Tail(m))

\* simpleMaskLength: the number of ones of a mask of ones followed by zeros,
\* -1 for any other mask
SimpleMaskLength(m) ==
    IF m = CIDRMaskOf(MaskOnes(m), Len(m), OctetBits) THEN MaskOnes(m) ELSE -1

\* IPNet.String(): the network number in its 4-byte form when it has one,
\* and then only the last 4 bytes of a 16-byte mask
NetString(net) ==
    LET nn == IF To4(net.IP) # NilIP THEN To4(net.IP) ELSE net.IP
        m == IF Len(net.Mask) = IPv6len /\ Len(nn) = IPv4len
             THEN SubSeq(net.Mask, IPv6len - IPv4len + 1, IPv6len)
             ELSE net.Mask
    IN  IF SimpleMaskLength(m) = -1
        THEN IPText(nn) \o <<"/">> \o MaskHex(m)
        ELSE IPText(nn) \o <<"/">> \o Decimal(SimpleMaskLength(m))

ParseError(s) == [Type |-> "CIDR address", Text |-> s]

\* net.ParseCIDR(s): "address/prefix length"
ParseCIDR(s) ==
    LET i == IndexOf(s, "/")
        addr == ParseAddr(SubSeq(s, 1, i - 1))
        mask == SubSeq(s, i + 1, Len(s))
        bad == [ip |-> NilIP, ipNet |-> NilNet, err |-> ParseError(s)]
    IN  IF i = 0 \/ addr = NilIP THEN bad
        ELSE IF ~DtoiOk(mask) THEN bad
        ELSE IF DecimalValue(mask) > Len(addr) * OctetBits THEN bad
        ELSE LET m == CIDRMaskOf(DecimalValue(mask), Len(addr), OctetBits)
             IN  [ip |-> IF Len(addr) = IPv4len THEN V4InV6(addr) ELSE addr,
                  ipNet |-> [IP |-> MaskIP(addr, m), Mask |-> m],
                  err |-> NoError]

Chars(str) == CASE str = "192.168." -> <<"1", "9", "2", ".", "1", "6", "8", ".">>
                [] str = ".0/24" -> <<".", "0", "/", "2", "4">>
                [] str = "/32" -> <<"/", "3", "2">>

\* the integer shorthand is not rewritten
parseInputNoShorthand(in) ==
    LET r == ParseCIDR(in)
    IN  IF r.err # NoError
        THEN IF ParseIP(in) # NilIP
             THEN [ip |-> ParseIP(in),
                   ipNet |-> ParseCIDR(in \o Chars("/32")).ipNet,
                   err |-> ParseCIDR(in \o Chars("/32")).err]
             ELSE [ip |-> NilIP, ipNet |-> NilNet, err |-> r.err]
        ELSE r

parseInput(in) ==
    LET s1 == IF AtoiOk(in) THEN Chars("192.168.") \o in \o Chars(".0/24") ELSE in
        r == ParseCIDR(s1)
    IN  IF r.err # NoError
        THEN IF ParseIP(s1) # NilIP
             THEN [ip |-> ParseIP(s1),
                   ipNet |-> ParseCIDR(s1 \o Chars("/32")).ipNet,
                   err |-> ParseCIDR(s1 \o Chars("/32")).err]
             ELSE [ip |-> NilIP, ipNet |-> NilNet, err |-> r.err]
        ELSE r

\* main: ip, ipNet, err := parseInput(cfg.CIDR)
ParseTarget ==
    /\ ppc = "parse"
    /\ parsed' = parseInput(input)
    /\ ppc' = "parsed"
    /\ UNCHANGED <<input, exitCode, cfg, ip, ipNet, genVars, out, scanVars>>

\* main: if err != nil { fmt.Printf("Invalid CIDR or IP: ..."); os.Exit(1) }
ParseFails ==
    /\ ppc = "parsed"
    /\ parsed.err # NoError
    /\ ppc' = "exited"
    /\ exitCode' = 1
    /\ UNCHANGED <<input, parsed, cfg, ip, ipNet, genVars, out, scanVars>>

\* ------------------------------------------------------------------ inc
\* for j := len(ip)-1; j >= 0; j-- { ip[j]++; if ip[j] > 0 { break } }
RECURSIVE incFrom(_, _)
incFrom(addr, j) ==
    IF j = 0 THEN addr
    ELSE LET b == (addr[j] + 1) % ByteMod
             a2 == [addr EXCEPT ![j] = b]
         IN  IF b > 0 THEN a2 ELSE incFrom(a2, j - 1)

\* ip[len-1]++ alone: the carry into the higher bytes is lost
incNoCarry(addr) ==
    [addr EXCEPT ![Len(addr)] = (addr[Len(addr)] + 1) % ByteMod]

inc(addr) == incFrom(addr, Len(addr))

\* ---------------------------------------------------------- generateIPs
\* Addresses come in several lengths (4 and 16 bytes in net.IP, 1..IPLen here).
AllIPs == UNION { [1..n -> 0..(ByteMod - 1)] : n \in 1..IPLen }

\* What net.ParseCIDR returns for address a and prefix length ones.
ParsedNet(a, ones) ==
    [IP |-> MaskIP(a, CIDRMask(ones, Len(a))), Mask |-> CIDRMask(ones, Len(a))]

ChanCap == cfg.Workers * 2

\* The history keeps one full address space and a little more.
HistCap == 2 ^ (Len(ip) * ByteBits) + 2
Record(h, x) == IF Len(h) < HistCap THEN Append(h, x) ELSE h

\* ip = ip.To4(); currentIP := copy(ip.Mask(ipNet.Mask))
GenStart ==
    /\ gpc = "start"
    /\ currentIP' = MaskIP(ip, ipNet.Mask)
    /\ gpc' = "loop"
    /\ UNCHANGED <<inVars, out, outClosed, emitted, scanVars>>

\* one iteration: ipNet.Contains(currentIP); out <- currentIP.String(); inc(currentIP)
GenSend ==
    /\ gpc = "loop"
    /\ Contains(ipNet, currentIP)
    /\ Len(out) < ChanCap
    /\ out' = Append(out, IPString(currentIP))
    /\ emitted' = Record(emitted, IPString(currentIP))
    /\ currentIP' = inc(currentIP)
    /\ UNCHANGED <<inVars, gpc, outClosed, scanVars>>

\* loop exit: defer close(out)
GenClose ==
    /\ gpc = "loop"
    /\ ~Contains(ipNet, currentIP)
    /\ outClosed' = TRUE
    /\ gpc' = "done"
    /\ UNCHANGED <<inVars, currentIP, out, emitted, scanVars>>

\* a consumer ranging over the channel takes the next string
Collect ==
    /\ Len(out) > 0
    /\ out' = Tail(out)
    /\ UNCHANGED <<inVars, genVars, scanVars>>

\* The inputs: every network of every prefix length, named by its first or
\* by its last address (the base address need not be the network address).
LastOf(net) == [i \in 1..Len(net.IP) |-> net.IP[i] + (ByteMod - 1) - net.Mask[i]]
Ranges ==
    { [ip |-> x[1], ipNet |-> ParsedNet(x[1], x[2])] :
        x \in { y \in AllIPs \X (0..AddrBits) :
            /\ y[2] <= Len(y[1]) * ByteBits
            /\ \/ y[1] = ParsedNet(y[1], y[2]).IP
               \/ y[1] = LastOf(ParsedNet(y[1], y[2])) } }

\* generateIPs has been called and scan has not run yet.
Fresh ==
    /\ gpc = "start"
    /\ currentIP = <<>>
    /\ out = <<>>
    /\ outClosed = FALSE
    /\ emitted = <<>>
    /\ spc = "create"
    /\ target = ""
    /\ sem = 0
    /\ wg = 0
    /\ okNum = 0 /\ failNum = 0 /\ processedNum = 0
    /\ printMutex = "" /\ outputMutex = ""
    /\ f = "nil" /\ fileData = <<>>
    /\ done = FALSE
    /\ probes = EmptyBag
    /\ opc = "idle"
    /\ found = {}
    /\ notified = <<>>
    /\ summary = [ok |-> 0, fail |-> 0, processed |-> 0]

EnumInit ==
    /\ input = <<>> /\ ppc = "parse" /\ exitCode = -1 /\ parsed = NoResult
    /\ cfg \in [Workers : 1..MaxWorkers, OutputFile : {""}]
    /\ \E r \in Ranges : ip = r.ip /\ ipNet = r.ipNet
    /\ Fresh

EnumNext == GenStart \/ GenSend \/ GenClose \/ Collect

EnumSpec == EnumInit /\ [][EnumNext]_vars

\* ------------------------------------------------------------------ scan
\* atomic.Int32.Add(1): two's complement on CounterBits bits.
Add32(x) ==
    LET half == 2 ^ (CounterBits - 1)
    IN  ((x + 1 + half) % (2 * half)) - half

\* if cfg.OutputFile != "" { f, err = os.Create(...) } ; go <progress updater>
ScanOpen ==
    /\ spc = "create"
    /\ IF cfg.OutputFile # "" THEN f' = "open" ELSE f' = "nil"
    /\ fileData' = <<>>
    /\ opc' = "select"
    /\ spc' = "range"
    /\ UNCHANGED <<inVars, genVars, out, target, sem, wg, tallyVars, printMutex,
                   outputMutex, done, probes, found, notified, summary>>

\* the failure of os.Create is acted on only inside the dispatch loop
ScanCreateFailsLate ==
    /\ spc = "range"
    /\ cfg.OutputFile # ""
    /\ spc' = "aborted"
    /\ UNCHANGED <<inVars, genVars, out, target, sem, wg, tallyVars, printMutex,
                   outputMutex, fileVars, done, probes, opc, found,
                   notified, summary>>

\* os.Create fails: print the error and return
ScanCreateFails ==
    /\ spc = "create"
    /\ cfg.OutputFile # ""
    /\ spc' = "aborted"
    /\ UNCHANGED <<inVars, genVars, out, target, sem, wg, tallyVars, printMutex,
                   outputMutex, fileVars, done, probes, opc, found,
                   notified, summary>>

\* for ip := range ips { wg.Add(1)
RangeRecv ==
    /\ spc = "range"
    /\ Len(out) > 0
    /\ BagCardinality(probes) < cfg.Workers + MaxLag
    /\ target' = Head(out)
    /\ out' = Tail(out)
    /\ wg' = wg + 1
    /\ spc' = "acquire"
    /\ UNCHANGED <<inVars, genVars, sem, tallyVars, printMutex, outputMutex,
                   fileVars, done, probes, opc, found, notified, summary>>

\* the channel is closed and drained: the loop ends
RangeEnd ==
    /\ spc = "range"
    /\ Len(out) = 0
    /\ outClosed
    /\ spc' = "wait"
    /\ UNCHANGED <<inVars, genVars, out, target, sem, wg, tallyVars, printMutex,
                   outputMutex, fileVars, done, probes, opc, found,
                   notified, summary>>

\* sem <- struct{}{} with no room check: the send never blocks
DispatchUnbounded ==
    /\ spc = "acquire"
    /\ sem' = sem + 1
    /\ probes' = probes (+) SetToBag({[ip |-> target, pc |-> "dial", late |-> FALSE]})
    /\ spc' = "range"
    /\ UNCHANGED <<inVars, genVars, out, target, wg, tallyVars, printMutex,
                   outputMutex, fileVars, done, opc, found, notified, summary>>

\* sem <- struct{}{} ; go func(targetIP string) {...}(ip)
Dispatch ==
    /\ spc = "acquire"
    /\ sem < cfg.Workers
    /\ sem' = sem + 1
    /\ probes' = probes (+) SetToBag({[ip |-> target, pc |-> "dial", late |-> FALSE]})
    /\ spc' = "range"
    /\ UNCHANGED <<inVars, genVars, out, target, wg, tallyVars, printMutex,
                   outputMutex, fileVars, done, opc, found, notified, summary>>

\* wg.Wait()
WaitAll ==
    /\ spc = "wait"
    /\ wg = 0
    /\ spc' = "closeDone"
    /\ UNCHANGED <<inVars, genVars, out, target, sem, wg, tallyVars, printMutex,
                   outputMutex, fileVars, done, probes, opc, found,
                   notified, summary>>

\* close(done)
CloseDone ==
    /\ spc = "closeDone"
    /\ done' = TRUE
    /\ spc' = "lockSummary"
    /\ UNCHANGED <<inVars, genVars, out, target, sem, wg, tallyVars, printMutex,
                   outputMutex, fileVars, probes, opc, found,
                   notified, summary>>

\* printMutex.Lock() before the summary
SummaryLock ==
    /\ spc = "lockSummary"
    /\ printMutex = ""
    /\ printMutex' = "scan"
    /\ spc' = "summary"
    /\ UNCHANGED <<inVars, genVars, out, target, sem, wg, tallyVars, outputMutex,
                   fileVars, done, probes, opc, found, notified, summary>>

\* the summary block, printMutex.Unlock(), return (defer f.Close())
Summary ==
    /\ spc = "summary"
    /\ summary' = [ok |-> okNum, fail |-> failNum, processed |-> processedNum]
    /\ printMutex' = ""
    /\ f' = IF f = "open" THEN "closed" ELSE f
    /\ spc' = "returned"
    /\ UNCHANGED <<inVars, genVars, out, target, sem, wg, tallyVars, outputMutex,
                   fileData, done, probes, opc, found, notified>>

\* scan has returned and main falls off its end: the process exits with
\* status 0 and its goroutines end with it
MainReturn ==
    /\ spc \in {"returned", "aborted"}
    /\ exitCode = -1
    /\ exitCode' = 0
    /\ gpc' = IF gpc = "done" THEN gpc ELSE "exited"
    /\ opc' = IF opc \in {"idle", "returned"} THEN opc ELSE "exited"
    /\ UNCHANGED <<input, ppc, parsed, cfg, ip, ipNet, currentIP, outClosed, emitted,
                   out, spc, target, sem, wg, tallyVars, printMutex, outputMutex,
                   fileVars, done, probes, found, notified, summary>>

\* ---------------------------------------------------- the probe goroutines
Step(g, pc) == (probes (-) SetToBag({g})) (+) SetToBag({[g EXCEPT !.pc = pc]})

\* tryConnectSSH returned an error: failNum.Add(1)
Failed(g) ==
    /\ failNum' = Add32(failNum)
    /\ probes' = Step(g, "processed")
    /\ UNCHANGED <<inVars, genVars, out, spc, target, sem, wg, okNum, processedNum,
                   printMutex, outputMutex, fileVars, done, opc, found,
                   notified, summary>>

\* ssh.Dial: net.DialTimeout fails (refused, unreachable)
DialFails(g) ==
    /\ g.pc = "dial"
    /\ Failed(g)

\* ssh.Dial: net.DialTimeout reaches config.Timeout
DialTimesOut(g) ==
    /\ g.pc = "dial"
    /\ Failed(g)

\* ssh.Dial: the TCP connection is established, the handshake starts
DialConnects(g) ==
    /\ g.pc = "dial"
    /\ probes' = Step(g, "handshake")
    /\ UNCHANGED <<inVars, genVars, out, spc, target, sem, wg, tallyVars,
                   printMutex, outputMutex, fileVars, done, opc, found,
                   notified, summary>>

\* the timeout elapses while the handshake is under way: config.Timeout
\* bounded the dial only, nothing acts on it now
DeadlinePasses(g) ==
    /\ g.pc = "handshake"
    /\ ~g.late
    /\ probes' = (probes (-) SetToBag({g})) (+) SetToBag({[g EXCEPT !.late = TRUE]})
    /\ UNCHANGED <<inVars, genVars, out, spc, target, sem, wg, tallyVars,
                   printMutex, outputMutex, fileVars, done, opc, found,
                   notified, summary>>

\* the handshake fails (authentication rejected, protocol error)
HandshakeFails(g) ==
    /\ g.pc = "handshake"
    /\ Failed(g)

\* the handshake succeeds: client.Close(), return nil; okNum.Add(1)
HandshakeSucceeds(g) ==
    /\ g.pc = "handshake"
    /\ okNum' = Add32(okNum)
    /\ found' = IF f = "nil" THEN found ELSE found \cup {g.ip}
    /\ probes' = Step(g, "lockPrint")
    /\ UNCHANGED <<inVars, genVars, out, spc, target, sem, wg, failNum,
                   processedNum, printMutex, outputMutex, fileVars, done, opc,
                   notified, summary>>

\* the notification is printed without waiting for printMutex
PrintLockNoWait(g) ==
    /\ g.pc = "lockPrint"
    /\ printMutex' = g.ip
    /\ probes' = Step(g, "printing")
    /\ UNCHANGED <<inVars, genVars, out, spc, target, sem, wg, tallyVars,
                   outputMutex, fileVars, done, opc, found, notified, summary>>

\* printMutex.Lock()
PrintLock(g) ==
    /\ g.pc = "lockPrint"
    /\ printMutex = ""
    /\ printMutex' = g.ip
    /\ probes' = Step(g, "printing")
    /\ UNCHANGED <<inVars, genVars, out, spc, target, sem, wg, tallyVars,
                   outputMutex, fileVars, done, opc, found, notified, summary>>

\* the "[+] ip" line and printProgress(); printMutex.Unlock(); if f != nil
PrintFound(g) ==
    /\ g.pc = "printing"
    /\ notified' = IF f = "nil" THEN notified ELSE Append(notified, g.ip)
    /\ printMutex' = ""
    /\ probes' = Step(g, IF f # "nil" THEN "lockOutput" ELSE "processed")
    /\ UNCHANGED <<inVars, genVars, out, spc, target, sem, wg, tallyVars,
                   outputMutex, fileVars, done, opc, found, summary>>

\* outputMutex.Lock()
OutputLock(g) ==
    /\ g.pc = "lockOutput"
    /\ outputMutex = ""
    /\ outputMutex' = g.ip
    /\ probes' = Step(g, "writing")
    /\ UNCHANGED <<inVars, genVars, out, spc, target, sem, wg, tallyVars,
                   printMutex, fileVars, done, opc, found, notified, summary>>

\* f.WriteString(targetIP) without the line end
WriteFoundNoNewline(g) ==
    /\ g.pc = "writing"
    /\ fileData' = Append(fileData, g.ip)
    /\ outputMutex' = ""
    /\ probes' = Step(g, "processed")
    /\ UNCHANGED <<inVars, genVars, out, spc, target, sem, wg, tallyVars,
                   printMutex, f, done, opc, found, notified, summary>>

\* f.WriteString(targetIP + "\n"); outputMutex.Unlock()
WriteFound(g) ==
    /\ g.pc = "writing"
    /\ fileData' = Append(fileData, g.ip \o "\n")
    /\ outputMutex' = ""
    /\ probes' = Step(g, "processed")
    /\ UNCHANGED <<inVars, genVars, out, spc, target, sem, wg, tallyVars,
                   printMutex, f, done, opc, found, notified, summary>>

\* processedNum.Add(1)
Processed(g) ==
    /\ g.pc = "processed"
    /\ processedNum' = Add32(processedNum)
    /\ probes' = Step(g, "release")
    /\ UNCHANGED <<inVars, genVars, out, spc, target, sem, wg, okNum, failNum,
                   printMutex, outputMutex, fileVars, done, opc, found,
                   notified, summary>>

\* the deferred release is missing: the token stays in the pool
ReleaseTokenLeak(g) ==
    /\ g.pc = "release"
    /\ probes' = Step(g, "wgDone")
    /\ UNCHANGED <<inVars, genVars, out, spc, target, sem, wg, tallyVars,
                   printMutex, outputMutex, fileVars, done, opc, found,
                   notified, summary>>

\* defer func() { <-sem }(): runs first
ReleaseToken(g) ==
    /\ g.pc = "release"
    /\ sem > 0
    /\ sem' = sem - 1
    /\ probes' = Step(g, "wgDone")
    /\ UNCHANGED <<inVars, genVars, out, spc, target, wg, tallyVars, printMutex,
                   outputMutex, fileVars, done, opc, found, notified, summary>>

\* defer wg.Done(): runs last, the goroutine ends
WgDone(g) ==
    /\ g.pc = "wgDone"
    /\ wg' = wg - 1
    /\ probes' = probes (-) SetToBag({g})
    /\ UNCHANGED <<inVars, genVars, out, spc, target, sem, tallyVars, printMutex,
                   outputMutex, fileVars, done, opc, found, notified, summary>>

\* ------------------------------------------------- the progress goroutine
\* case <-ticker.C: printMutex.Lock()
ObsTick ==
    /\ opc = "select"
    /\ printMutex = ""
    /\ printMutex' = "progress"
    /\ opc' = "print"
    /\ UNCHANGED <<inVars, genVars, out, spc, target, sem, wg, tallyVars,
                   outputMutex, fileVars, done, probes, found,
                   notified, summary>>

\* printProgress(); printMutex.Unlock()
ObsPrint ==
    /\ opc = "print"
    /\ printMutex' = ""
    /\ opc' = "select"
    /\ UNCHANGED <<inVars, genVars, out, spc, target, sem, wg, tallyVars,
                   outputMutex, fileVars, done, probes, found,
                   notified, summary>>

\* case <-done: return
ObsStop ==
    /\ opc = "select"
    /\ done
    /\ opc' = "returned"
    /\ UNCHANGED <<inVars, genVars, out, spc, target, sem, wg, tallyVars,
                   printMutex, outputMutex, fileVars, done, probes, found,
                   notified, summary>>

\* --------------------------------------------------------- specifications
\* The scanned ranges: the last 1, 2, .. 2^MaxHostBits addresses of an address
\* space, named by the last address, and the whole space of the shortest
\* addresses (prefix length 0, scanned by one worker without output file).
AllOnes(len) == [i \in 1..len |-> ByteMod - 1]
ScanRanges ==
    { r \in Ranges :
        /\ r.ip = AllOnes(Len(r.ip))
        /\ \/ TotalIPs(r.ipNet) <= 2 ^ MaxHostBits
           \/ Len(r.ip) = 1 /\ MaskOnes(r.ipNet.Mask) = 0 }

Init ==
    /\ input = <<>> /\ ppc = "parse" /\ exitCode = -1 /\ parsed = NoResult
    /\ cfg \in [Workers : 1..MaxWorkers, OutputFile : {"", "found.txt"}]
    /\ \E r \in ScanRanges : ip = r.ip /\ ipNet = r.ipNet
    /\ MaskOnes(ipNet.Mask) = 0 => cfg.OutputFile = "" /\ cfg.Workers = 1
    /\ Fresh

GenStep == GenStart \/ GenSend \/ GenClose

ScanStep ==
    \/ ScanOpen \/ ScanCreateFails
    \/ RangeRecv \/ RangeEnd \/ Dispatch
    \/ WaitAll \/ CloseDone \/ SummaryLock \/ Summary \/ MainReturn

Concludes(g) ==
    \/ DialFails(g) \/ DialTimesOut(g) \/ DialConnects(g)
    \/ HandshakeFails(g) \/ HandshakeSucceeds(g)

Reports(g) ==
    \/ PrintLock(g) \/ PrintFound(g) \/ OutputLock(g) \/ WriteFound(g)
    \/ Processed(g) \/ ReleaseToken(g) \/ WgDone(g)

ProbeStep == \E g \in BagToSet(probes) : Concludes(g) \/ Reports(g)

TimePasses == \E g \in BagToSet(probes) : DeadlinePasses(g)

ObsStep == ObsTick \/ ObsPrint \/ ObsStop

Next == GenStep \/ ScanStep \/ ProbeStep \/ TimePasses \/ ObsStep

Spec == Init /\ [][Next]_vars

\* Scheduling: every goroutine that can run does run, a goroutine waiting for
\* a mutex gets it (sync.Mutex hands over to a starving waiter), and, as C10
\* assumes, every probe returns.
Fairness ==
    /\ WF_vars(GenStep)
    /\ SF_vars(ScanStep)
    /\ SF_vars(ProbeStep)
    /\ WF_vars(ObsPrint \/ ObsStop)

\* The runs followed to their end: those of Init, the four-address ranges
\* without the combination of two workers and an output file.
FairInit ==
    /\ Init
    /\ (cfg.Workers > 1 /\ cfg.OutputFile # "") => TotalIPs(ipNet) < 2 ^ MaxHostBits

FairSpec == FairInit /\ [][Next]_vars /\ Fairness


\* The targets parseInput is tried on.
DottedText(a) ==
    Decimal(a[1]) \o <<".">> \o Decimal(a[2]) \o <<".">> \o Decimal(a[3])
        \o <<".">> \o Decimal(a[4])
SampleIPs ==
    { <<192, 168, 1, 0>>, <<192, 168, 1, 5>>, <<10, 0, 0, 1>>,
      <<0, 0, 0, 0>>, <<255, 255, 255, 255>>, <<172, 16, 254, 129>> }
ShorthandInput(n) == Decimal(n)
CIDRInput(a, p) == DottedText(a) \o <<"/">> \o Decimal(p)
BareInput(a) == DottedText(a)
OtherInputs ==
    { <<>>,
      <<"i", "n", "v", "a", "l", "i", "d">>,
      <<"-", "3">>, <<"2", "5", "6">>, <<"1", "0", "0", "0">>,
      [i \in 1..20 |-> "9"],
      <<"1", ".", "2", ".", "3">>, <<"1", ".", "2", ".", "3", ".", "4", ".", "5">>,
      <<"2", "5", "6", ".", "1", ".", "1", ".", "1">>,
      <<"1", ".", "2", ".", "3", ".", "4", "/">>, <<"/", "2", "4">>,
      <<"1", ".", "2", ".", "3", ".", "4", "/", "3", "3">>,
      <<"1", ".", "2", ".", "3", ".", "4", "/", "x">>,
      <<"1", ".", "2", ".", "3", ".", "x">> }
SpelledInputs == { <<"+", "3">>, <<"0", "0", "7">>, <<"0", "3">> }

\* 16-byte addresses: the text and the eight 16-bit fields it stands for
FieldBytes(flds) ==
    [i \in 1..IPv6len |->
        IF i % 2 = 1 THEN flds[(i + 1) \div 2] \div 2 ^ OctetBits
        ELSE flds[i \div 2] % 2 ^ OctetBits]
SampleIP6s ==
    { [text |-> <<":", ":", "1">>, flds |-> <<0, 0, 0, 0, 0, 0, 0, 1>>],
      [text |-> <<":", ":">>, flds |-> <<0, 0, 0, 0, 0, 0, 0, 0>>],
      [text |-> <<"2", "0", "0", "1", ":", "d", "b", "8", ":", ":", "1">>,
       flds |-> <<8193, 3512, 0, 0, 0, 0, 0, 1>>],
      [text |-> <<"F", "E", "8", "0", ":", ":", "a", ":", "0", "b">>,
       flds |-> <<65152, 0, 0, 0, 0, 0, 10, 11>>],
      [text |-> <<"1", ":", "2", ":", "3", ":", "4", ":", "5", ":", "6", ":", "7",
                  ":", "8">>,
       flds |-> <<1, 2, 3, 4, 5, 6, 7, 8>>],
      [text |-> <<":", ":", "f", "f", "f", "f", ":", "1", "0", ".", "0", ".", "0",
                  ".", "1">>,
       flds |-> <<0, 0, 0, 0, 0, 65535, 2560, 1>>] }
CIDR6Input(b, p) == b.text \o <<"/">> \o Decimal(p)
SamplePrefix6s == {0, 32, 64, 96, 120, 128}
Other6Inputs ==
    { <<":">>, <<":", ":", ":">>, <<"1", ":", ":", "2", ":", ":", "3">>,
      <<"1", ":", "2", ":", "3">>, <<"1", "2", "3", "4", "5", ":", ":">>,
      <<"1", ":", "2", ":", "3", ":", "4", ":", "5", ":", "6", ":", "7", ":", "8",
        ":", "9">>,
      <<"1", ":", "2", ":", "3", ":", "4", ":", "5", ":", "6", ":", "7", ":", ":",
        "8">>,
      <<":", ":", "1", "%", "e", "t", "h", "0">>, <<":", ":", "g">>,
      <<":", ":", "1", "/", "1", "2", "9">>, <<"1", ":", ":", "1", ".", "2", ".", "3">> }
ParseInputs ==
    { ShorthandInput(n) : n \in 0..255 }
        \cup { CIDRInput(a, p) : a \in SampleIPs, p \in 0..(IPv4len * OctetBits) }
        \cup { BareInput(a) : a \in SampleIPs }
        \cup OtherInputs \cup SpelledInputs
        \cup { b.text : b \in SampleIP6s }
        \cup { CIDR6Input(b, p) : b \in SampleIP6s, p \in SamplePrefix6s }
        \cup Other6Inputs

ParseInit ==
    /\ input \in ParseInputs
    /\ ppc = "parse"
    /\ exitCode = -1
    /\ parsed = NoResult
    /\ cfg = [Workers |-> 1, OutputFile |-> ""]
    /\ ip = <<0>> /\ ipNet = ParsedNet(<<0>>, 0)
    /\ Fresh

ParseNext == ParseTarget \/ ParseFails

ParseSpec == ParseInit /\ [][ParseNext]_vars

\* ---------------------------------------------------------------- claims
\* The i-th address of the range, as generateIPs prints it.
NthOfRange(i) == IPString(IPOfValue(IPValue(ipNet.IP) + i - 1, Len(ipNet.IP)))

\* C4: for every prefix length P from 0 to the address width W the enumerator
\* emits exactly 2^(W-P) addresses and then ends: it never emits more, and
\* when it has closed its channel it has emitted that many.
C4_EmitsExactlyRangeSize ==
    /\ Len(emitted) <= TotalIPs(ipNet)
    /\ gpc = "done" => Len(emitted) = TotalIPs(ipNet)

\* C5: the emitted sequence starts at base AND mask, each address is the
\* previous one plus 1, no address repeats and none is outside the range.
C5_AscendingNoGapsNoDuplicates ==
    /\ \A i \in 1..Len(emitted) :
          /\ i <= TotalIPs(ipNet)
          /\ emitted[i] = NthOfRange(i)
    /\ \A i, j \in 1..Len(emitted) : i < j => emitted[i] # emitted[j]

Holding == { g \in BagToSet(probes) : g.pc # "wgDone" }
InFlight == BagCardinality([g \in Holding |-> probes[g]])

\* C1: when a scan has completed, the tally of its summary satisfies
\* success + failure = processed = number of addresses the enumerator emitted.
C1_TallyConservation ==
    spc = "returned" =>
        /\ summary.ok + summary.fail = summary.processed
        /\ summary.processed = Len(emitted)

\* C2: in every state the number of probes started and not yet concluded is
\* at most cfg.Workers.
C2_InFlightBounded ==
    /\ InFlight <= cfg.Workers
    /\ sem <= cfg.Workers

\* the pool is saturated and the dispatch loop is blocked on a token
C2_Witness ==
    /\ cfg.Workers = 2
    /\ InFlight = 2
    /\ spc = "acquire"

\* C3: the summary is printed, and scan returns, only when every dispatched
\* probe has concluded and every token is released; every probe that has
\* not released holds exactly one token, and the pool is empty once the
\* wait barrier is passed.
C3_QuiescentBeforeSummary ==
    /\ sem = InFlight
    /\ wg = BagCardinality(probes) + (IF spc = "acquire" THEN 1 ELSE 0)
    /\ spc \in {"closeDone", "lockSummary", "summary", "returned"} =>
          /\ probes = EmptyBag
          /\ sem = 0
          /\ wg = 0

\* a scan returned after probes of both outcomes
C3_Witness ==
    /\ spc = "returned"
    /\ summary.ok > 0
    /\ summary.fail > 0
    /\ sem = 0

C9_ConcludedByDeadline ==
    \A g \in BagToSet(probes) : g.late => g.pc \notin {"dial", "handshake"}

\* C10: a run that passes the fatal checks reaches the final summary.
C10_ReachesSummary == (spc = "range") ~> (spc = "returned")

\* C7: parseInput resolves shorthand, then CIDR, then bare address, then
\* fails: the integer N in 0..255 gives the range 192.168.N.0/24 of 256
\* addresses, a CIDR text gives its own network and mask, a bare 4-byte
\* address gives a range of exactly that address, and any other text gives an
\* error and no range.
RangeSize(net) == 2 ^ (Len(net.Mask) * OctetBits - MaskOnes(net.Mask))
C7_ResolutionOrder ==
    ppc = "parsed" =>
        /\ \A n \in 0..255 : input = ShorthandInput(n) =>
              /\ parsed.err = NoError
              /\ parsed.ipNet = [IP |-> <<192, 168, n, 0>>, Mask |-> <<255, 255, 255, 0>>]
              /\ parsed.ipNet = parseInput(CIDRInput(<<192, 168, n, 0>>, 24)).ipNet
              /\ RangeSize(parsed.ipNet) = 256
        /\ \A a \in SampleIPs, p \in 0..(IPv4len * OctetBits) : input = CIDRInput(a, p) =>
              /\ parsed.err = NoError
              /\ To4(parsed.ip) = a
              /\ parsed.ipNet.Mask = CIDRMaskOf(p, IPv4len, OctetBits)
              /\ parsed.ipNet.IP = MaskIP(a, parsed.ipNet.Mask)
        /\ \A a \in SampleIPs : input = BareInput(a) =>
              /\ parsed.err = NoError
              /\ To4(parsed.ip) = a
              /\ RangeSize(parsed.ipNet) = 1
              /\ \A b \in SampleIPs : Contains(parsed.ipNet, b) <=> b = a
        /\ input \in OtherInputs =>
              /\ parsed.err # NoError
              /\ parsed.ip = NilIP
              /\ parsed.ipNet = NilNet

\* the shorthand 3 has been parsed to 192.168.3.0/24
C7_Witness ==
    /\ input = <<"3">>
    /\ ppc = "parsed"
    /\ parsed.err = NoError
    /\ parsed.ipNet.IP = <<192, 168, 3, 0>>

\* scan has touched nothing: no token, no goroutine, no count, no file, no
\* address taken from the channel, no progress goroutine
NothingDispatched ==
    /\ sem = 0 /\ wg = 0 /\ probes = EmptyBag
    /\ okNum = 0 /\ failNum = 0 /\ processedNum = 0
    /\ target = "" /\ f = "nil" /\ fileData = <<>>
    /\ opc \in {"idle", "exited"}
    /\ summary = [ok |-> 0, fail |-> 0, processed |-> 0]

\* C11: when the output file cannot be created, scan is aborted before any
\* probe is dispatched: at the abort no slot is taken, no probe is started,
\* the counters are zero, and from then on scan does nothing more, so no
\* tally is reported.
C11_AbortsBeforeDispatch ==
    [][ /\ spc' = "aborted" => NothingDispatched'
        /\ spc = "aborted" => spc' = "aborted" ]_vars

\* the run was aborted while the enumerator had addresses ready, and ended
C11_Witness ==
    /\ spc = "aborted"
    /\ cfg.OutputFile # ""
    /\ Len(out) > 0
    /\ exitCode = 0

\* C12: a run ended by a fatal condition (invalid target, output file not
\* created) has a non-zero exit status.
C12_FatalExitsNonZero ==
    (/\ exitCode # -1
     /\ \/ spc = "aborted"
        \/ ppc \in {"parsed", "exited"} /\ parsed.err # NoError)
        => exitCode # 0

\* C13: a bare address, of 4 or of 16 bytes, parses to the range of exactly
\* that address: the mask is all ones over the width of the address.
C13_BareAddressIsSingle ==
    ppc = "parsed" =>
        /\ \A a \in SampleIPs : input = BareInput(a) =>
              /\ parsed.err = NoError
              /\ To4(parsed.ip) = a
              /\ parsed.ipNet = [IP |-> a, Mask |-> CIDRMaskOf(32, IPv4len, OctetBits)]
        /\ \A b \in SampleIP6s : input = b.text =>
              /\ parsed.err = NoError
              /\ parsed.ip = FieldBytes(b.flds)
              /\ parsed.ipNet = [IP |-> FieldBytes(b.flds),
                                 Mask |-> CIDRMaskOf(128, IPv6len, OctetBits)]

\* C14: the error of a failed parse carries the input as the caller gave it.
C14_ErrorCarriesInput ==
    (ppc \in {"parsed", "exited"} /\ parsed.err # NoError) => parsed.err.Text = input

\* C15: parsing the canonical string of a parsed range (IPNet.String) gives
\* the same base address and the same mask again.
C15_ReparseIdentical ==
    (ppc = "parsed" /\ parsed.err = NoError) =>
        LET again == parseInput(NetString(parsed.ipNet))
        IN  /\ again.err = NoError
            /\ again.ip = parsed.ip
            /\ again.ipNet.Mask = parsed.ipNet.Mask

\* C16: the lines of the output file are in the order in which the success
\* notifications were printed.
C16_FileInDiscoveryOrder ==
    (spc = "returned" /\ f # "nil") =>
        fileData = [i \in 1..Len(notified) |-> notified[i] \o "\n"]

\* The goroutines that are inside a section of writes to standard output.
Printing ==
    (IF opc = "print" THEN 1 ELSE 0)
        + BagCardinality([g \in { h \in BagToSet(probes) : h.pc = "printing" }
                            |-> probes[g]])
        + (IF spc = "summary" THEN 1 ELSE 0)

\* C17: at most one of the progress goroutine, the probes printing a success
\* notification and the final summary is inside its output section, and the
\* one that is holds printMutex.
C17_StdoutExclusive ==
    /\ Printing <= 1
    /\ Printing = 1 => printMutex # ""

\* a probe prints its notification while another one waits for printMutex
C17_Witness ==
    /\ \E g \in BagToSet(probes) : g.pc = "printing"
    /\ \E g \in BagToSet(probes) : g.pc = "lockPrint"
    /\ Printing = 1

\* C18: no tally counter ever decreases.
C18_CountersNeverDecrease ==
    [][ /\ okNum' >= okNum
        /\ failNum' >= failNum
        /\ processedNum' >= processedNum ]_vars

\* C19: processed <= success + failure <= processed + in-flight probes.
C19_TallyBrackets ==
    /\ processedNum <= okNum + failNum
    /\ okNum + failNum <= processedNum + InFlight

\* C20: once scan has closed done and printed the summary, the progress
\* goroutine prints no further progress line.
C20_SummaryIsLast ==
    [][ spc = "returned" => ~(opc = "print" /\ opc' = "select") ]_vars

====
